---- MODULE Spec2Model ----
(***************************************************************************)
(* Model of src/django-skill-correct/main.py: DjangoIssueAutomation, the   *)
(* staged validation pipeline (work_on_issue), the documentation-vs-code   *)
(* consistency check and the pattern-based issue scanner.                  *)
(*                                                                         *)
(* Text is modelled as fragments: a source file is a sequence of lines, a  *)
(* line is a set of fragments, a document is a sequence of fragments and   *)
(* an issue description is a sequence of lines of fragments.  Python's     *)
(* (needle in text) is Occurs/Contains below, str.lower()/str.upper() are  *)
(* Lower/Upper; they are tabulated for the fragment alphabet.              *)
(*                                                                         *)
(* The project (documents and source tree) is chosen in Init and stays     *)
(* unchanged; calls are made either through the module-level work_on_issue *)
(* (a new object per call) or again on the same object.  CLAUDE.md,        *)
(* pyproject.toml and the workflow document only fill attributes that no   *)
(* stage reads, and are left out.                                          *)
(***************************************************************************)
EXTENDS Integers, Sequences, FiniteSets, TLC

\* ---------------------------------------------------------------- bounds
MaxFiles == 2
MaxCalls == 2

None == "None"

\* ------------------------------------------------------- string helpers
\* str.lower() on the fragment alphabet (fragments without capitals map to
\* themselves, as in Python).
Lower(s) ==
  CASE s = "Deprecated"      -> "deprecated"
    [] s = "TODO"            -> "todo"
    [] s = "SELECT"          -> "select"
    [] s = "Select"          -> "select"
    [] s = "PASSWORD="       -> "password="
    [] s = "Email"           -> "email"
    [] s = "PIIMasker"       -> "piimasker"
    [] s = "GlobalPIIMasker" -> "globalpiimasker"
    [] s = "request.FILES"   -> "request.files"
    [] s = "class User"      -> "class user"
    [] s = "Add"             -> "add"
    [] s = "Upload"          -> "upload"
    [] s = "POST /users/{id}/export" -> "post /users/{id}/export"
    [] s = "Issue 7"         -> "issue 7"
    [] s = "model User"      -> "model user"
    [] s = "FileField"       -> "filefield"
    [] s = "FIXME"           -> "fixme"
    [] s = "Exporter"        -> "exporter"
    [] OTHER                 -> s

\* str.upper() on the fragment alphabet; only the fragments that spell
\* SELECT in some letter case produce a string containing "SELECT".
Upper(s) ==
  CASE s = "select"          -> "SELECT"
    [] s = "Select"          -> "SELECT"
    [] s = "deprecated"      -> "DEPRECATED"
    [] s = "Deprecated"      -> "DEPRECATED"
    [] s = "@deprecated"     -> "@DEPRECATED"
    [] s = "password="       -> "PASSWORD="
    [] s = "email"           -> "EMAIL"
    [] s = "Email"           -> "EMAIL"
    [] s = "eval("           -> "EVAL("
    [] s = ".format("        -> ".FORMAT("
    [] s = "getenv"          -> "GETENV"
    [] s = "\"secret\""      -> "\"SECRET\""
    [] s = "x = 1"           -> "X = 1"
    [] s = "print("          -> "PRINT("
    [] OTHER                 -> s

\* The proper-substring pairs <<needle, text>> over the alphabet.
SubstringPairs ==
  { <<"deprecated", "@deprecated">>,
    <<"PIIMasker", "GlobalPIIMasker">>,
    <<"\"", "\"secret\"">>,
    <<"user", "post /users/{id}/export">>,
    <<"user", "model user">>,
    <<"issue", "issue 7">>,
    <<"test", "tests">>,
    <<"migration", "migrations">> }

\* Python: needle in text, for one fragment of text.
Occurs(needle, text) == needle = text \/ <<needle, text>> \in SubstringPairs

\* Python: needle in line, a line being a set of fragments.
Contains(line, needle) == \E frag \in line : Occurs(needle, frag)
ContainsLower(line, needle) == \E frag \in line : Occurs(needle, Lower(frag))
ContainsUpper(line, needle) == \E frag \in line : Occurs(needle, Upper(frag))

\* Python: needle in content, content being a sequence of lines.
InContent(content, needle) ==
  \E i \in 1..Len(content) : Contains(content[i], needle)
InContentLower(content, needle) ==
  \E i \in 1..Len(content) : ContainsLower(content[i], needle)

\* Concatenation of a sequence of sequences.
RECURSIVE Flatten(_)
Flatten(ss) == IF ss = <<>> THEN <<>> ELSE Head(ss) \o Flatten(Tail(ss))

\* Python dict: a function whose domain is the set of keys present.
EmptyDict == <<>>
Get(d, k) == IF k \in DOMAIN d THEN d[k] ELSE None
GetOr(d, k, default) == IF k \in DOMAIN d THEN d[k] ELSE default

\* --------------------------------------------------------- the project
\* Source files of the project tree.  dir/name is the path relative to the
\* project root, lines the text split at newlines.
ViewsSecrets ==
  [dir |-> "app", name |-> "views.py",
   lines |-> << {"password=", "\"secret\"", ".format(", "SELECT"},
                {"eval(", "email"},
                {"request.FILES", "print("} >>]
ViewsQuery ==
  [dir |-> "api", name |-> "views.py",
   lines |-> << {"x = 1"},
                {"query =", ".format(", "Select"},
                {"personal", "FileField", "logging.info"} >>]
ViewsClean ==
  [dir |-> "shop", name |-> "views.py",
   lines |-> << {"Email", "GlobalPIIMasker"},
                {"request.FILES", "validate_with_magika"},
                {"print(", "get_logger"} >>]
UtilsPlain ==
  [dir |-> "core", name |-> "utils.py",
   lines |-> << {"email"}, {"print("} >>]
ModelsUser ==
  [dir |-> "app", name |-> "models.py",
   lines |-> << {"class User"}, {"TODO"} >>]
TestsViews ==
  [dir |-> "tests", name |-> "views.py",
   lines |-> << {"request.FILES", "personal"},
                {"PASSWORD=", "\"secret\"", "getenv"} >>]
UrlsTodo ==
  [dir |-> "app", name |-> "urls.py",
   lines |-> << {"TODO", "Deprecated"}, {"PASSWORD=", "\"secret\""} >>]

\* The files a project tree may hold, in the order glob enumerates them.
CandidateFiles ==
  << ViewsSecrets, ViewsQuery, ViewsClean, UtilsPlain,
     ModelsUser, TestsViews, UrlsTodo >>

\* The subsequence of s at the index set S, in index order.
RECURSIVE Pick(_, _, _)
Pick(s, S, i) ==
  IF i > Len(s) THEN <<>>
  ELSE (IF i \in S THEN <<s[i]>> ELSE <<>>) \o Pick(s, S, i + 1)

FileLists ==
  { Pick(CandidateFiles, S, 1) :
      S \in { T \in SUBSET (1..Len(CandidateFiles)) : Cardinality(T) <= MaxFiles } }

\* Topic documents: None when the file does not exist, else its fragments.
PiiDocs     == { None, <<"intro", "email">>, <<"PIIMasker", "from core.pii import">> }
MagikaDocs  == { None, <<"intro">>, <<"upload", "validate_with_magika">> }
LoggingDocs == { None, <<"intro", "debug">>, <<"get_logger">> }

\* Feature documentation: docs/<feature>/<doc_name>.md, as a dict of dicts.
FeatureTrees ==
  { "user" :> ("api" :> <<"~~~python", "def export_user", "class Exporter", "~~~">>) }

Projects ==
  [pii_doc : PiiDocs, magika_doc : MagikaDocs, logging_doc : LoggingDocs,
   feature_dirs : FeatureTrees, files : FileLists]

\* Path.glob("**/<name>"): the files of that name, in tree order.
Glob(files, name) == SelectSeq(files, LAMBDA f : f.name = name)
\* Path.glob("**/*.py"): every source file of the tree.
GlobPy(files) == files
\* 'word' in str(py_file)
InPath(f, word) == Occurs(word, f.dir) \/ Occurs(word, f.name)

\* ------------------------------------------------- documentation parsers
\* re.search(r'(a|b|c)', content): the alternative found in the first
\* fragment that holds one, None when there is no match.
RECURSIVE FirstMatch(_, _)
FirstMatch(doc, alts) ==
  IF doc = <<>> THEN None
  ELSE IF \E i \in 1..Len(alts) : Occurs(alts[i], Head(doc))
       THEN alts[CHOOSE i \in 1..Len(alts) :
                   /\ Occurs(alts[i], Head(doc))
                   /\ \A j \in 1..(i - 1) : ~Occurs(alts[j], Head(doc))]
       ELSE FirstMatch(Tail(doc), alts)

\* re.search(r'from\s+([\w.]+)\s+import', content)
ImportOrigin(frag) ==
  CASE frag = "from core.pii import" -> "core.pii"
    [] OTHER -> None
RECURSIVE FirstImport(_)
FirstImport(doc) ==
  IF doc = <<>> THEN None
  ELSE IF ImportOrigin(Head(doc)) # None THEN ImportOrigin(Head(doc))
       ELSE FirstImport(Tail(doc))

DocContainsLower(doc, word) == \E i \in 1..Len(doc) : Occurs(word, Lower(doc[i]))

\* A dict entry that is set only when the condition holds.
Entry(cond, k, v) == IF cond THEN k :> v ELSE EmptyDict

parse_pii_docs(content) ==
  LET m == FirstMatch(content, <<"GlobalPIIMasker", "PIIMasker", "mask_pii">>)
      o == FirstImport(content)
  IN  Entry(m # None, "masking_function", m)
      @@ Entry(o # None, "import_from", o)
      @@ Entry(DocContainsLower(content, "email"), "mask_email", TRUE)
      @@ Entry(DocContainsLower(content, "phone"), "mask_phone", TRUE)
      @@ Entry(DocContainsLower(content, "ssn") \/ DocContainsLower(content, "social"),
               "mask_ssn", TRUE)

\* re.search(r'from\s+([\w.]+)\s+import.*<word>', content): the import whose
\* line also names <word>.
RECURSIVE FirstImportNaming(_, _)
FirstImportNaming(doc, word) ==
  IF doc = <<>> THEN None
  ELSE IF ImportOrigin(Head(doc)) # None /\ Occurs(word, Lower(Head(doc)))
       THEN ImportOrigin(Head(doc))
       ELSE FirstImportNaming(Tail(doc), word)

\* re.search(r'format["\']?\s*[:=]\s*["\']([^"\']+)', content)
LogFormat(frag) ==
  CASE frag = "format = '%(message)s'" -> "%(message)s"
    [] OTHER -> None
RECURSIVE FirstLogFormat(_)
FirstLogFormat(doc) ==
  IF doc = <<>> THEN None
  ELSE IF LogFormat(Head(doc)) # None THEN LogFormat(Head(doc))
       ELSE FirstLogFormat(Tail(doc))

parse_magika_docs(content) ==
  LET m == FirstMatch(content,
                      <<"validate_with_magika", "magika_validate", "MagikaValidator">>)
  IN  Entry(m # None, "validation_function", m)
      @@ Entry(DocContainsLower(content, "upload"), "validate_uploads", TRUE)
      @@ Entry(DocContainsLower(content, "attachment"), "validate_attachments", TRUE)
      @@ Entry(FirstImportNaming(content, "magika") # None, "import_from",
               FirstImportNaming(content, "magika"))

parse_logging_docs(content) ==
  LET m == FirstMatch(content, <<"get_logger", "CentralizedLogger", "Logger.get">>)
  IN  Entry(m # None, "logger_function", m)
      @@ Entry(FirstLogFormat(content) # None, "log_format", FirstLogFormat(content))
      @@ Entry(FirstImportNaming(content, "logger") # None, "import_from",
               FirstImportNaming(content, "logger"))
      @@ Entry(DocContainsLower(content, "debug"), "supports_debug", TRUE)
      @@ Entry(DocContainsLower(content, "audit"), "has_audit_logging", TRUE)

\* _deep_documentation_read: a config is replaced only when its document
\* exists; otherwise the attribute keeps the value it had.
ReadDoc(doc, parsed, old) == IF doc # None THEN parsed ELSE old

\* ----------------------------------------------------------- the issue
\* Issue descriptions: a sequence of lines, each a sequence of fragments.
IssueExport ==
  << <<"Add", "endpoint", "POST /users/{id}/export", "-", "exports",
       "personal", "data,", "#42">> >>
IssueUpload  == << <<"Upload", "Issue 7">>, <<"-", "model User">> >>
IssuePlain   == << <<"fix">> >>
IssueModel   == << <<"model User", "#42">> >>
IssueGet     == << <<"get /x", "#42">> >>
Issues == { IssueExport, IssueUpload, IssuePlain, IssueModel, IssueGet }

DescFragments(description) == Flatten(description)
DescContainsLower(description, word) ==
  \E i \in 1..Len(DescFragments(description)) :
     Occurs(word, Lower(DescFragments(description)[i]))

\* re.search(r'#(\d+)', ...) and re.search(r'issue\s+(\d+)', ..., re.I):
\* the digits captured in one fragment, None when it does not match.
HashNumber(frag) ==
  CASE frag = "#42" -> "42"
    [] OTHER -> None
IssueWordNumber(frag) ==
  CASE frag = "issue 7" -> "7"
    [] frag = "Issue 7" -> "7"
    [] OTHER -> None
FirstHashNumber(frags) ==
  LET hits == { i \in 1..Len(frags) : HashNumber(frags[i]) # None }
  IN  IF hits = {} THEN None
      ELSE HashNumber(frags[CHOOSE i \in hits : \A j \in hits : i <= j])
FirstIssueWordNumber(frags) ==
  LET hits == { i \in 1..Len(frags) : IssueWordNumber(frags[i]) # None }
  IN  IF hits = {} THEN None
      ELSE IssueWordNumber(frags[CHOOSE i \in hits : \A j \in hits : i <= j])

\* re.finditer(r'(GET|POST|PUT|PATCH|DELETE)\s+(/[\w/\{\}]+)', ..., re.I)
IsEndpoint(frag) == frag \in {"POST /users/{id}/export", "get /x"}
EndpointOf(frag) ==
  CASE frag = "POST /users/{id}/export" ->
         [method |-> "POST", path |-> "/users/{id}/export"]
    [] frag = "get /x" -> [method |-> "GET", path |-> "/x"]

\* line.strip().startswith(('-', '*', <bullet>)) and the text after the marker
IsRequirement(line) == line # <<>> /\ Head(line) \in {"-", "*", "bullet"}

PiiKeywords == {"personal", "pii", "email", "phone", "ssn", "payment"}

parse_issue(description) ==
  LET frags == DescFragments(description)
      hash  == FirstHashNumber(frags)
      word  == FirstIssueWordNumber(frags)
      reqs  == SelectSeq(description, IsRequirement)
      eps   == SelectSeq(frags, IsEndpoint)
  IN  [description  |-> description,
       number       |-> IF hash # None THEN hash ELSE word,
       requirements |-> [i \in 1..Len(reqs) |-> Tail(reqs[i])],
       has_pii      |-> \E kw \in PiiKeywords : DescContainsLower(description, kw),
       needs_auth   |-> FALSE,
       endpoints    |-> [i \in 1..Len(eps) |-> EndpointOf(eps[i])],
       models       |-> <<>>]

\* ------------------------------------------------ consistency checker
PiiSignals     == {"email", "phone", "ssn", "personal"}
UploadSignals  == {"FileField", "ImageField", "request.FILES"}
LoggingSignals == {"print(", "logging.info"}

\* Variant: the file is reported whenever it shows a PII signal.
validate_pii_file_NoSymbolTest(pii_cfg, py_file) ==
  IF InPath(py_file, "test") THEN <<>>
  ELSE IF \E word \in PiiSignals : InContentLower(py_file.lines, word)
       THEN LET masker == GetOr(pii_cfg, "masking_function", "GlobalPIIMasker")
            IN  << [doc_file      |-> "docs/security/pii_masking.md",
                    doc_statement |-> <<"All PII should use", masker>>,
                    actual_code   |-> <<py_file.name,
                                        "handles PII but doesn't import", masker>>,
                    suggestion    |-> <<"Add: from",
                                        GetOr(pii_cfg, "import_from", "utils.pii"),
                                        "import", masker>>] >>
       ELSE <<>>

\* One pass of the loop body of _validate_pii_usage for one file.
validate_pii_file(pii_cfg, py_file) ==
  IF InPath(py_file, "test") THEN <<>>
  ELSE IF \E word \in PiiSignals : InContentLower(py_file.lines, word)
       THEN LET masker == GetOr(pii_cfg, "masking_function", "GlobalPIIMasker")
            IN  IF ~InContent(py_file.lines, masker)
                THEN << [doc_file      |-> "docs/security/pii_masking.md",
                         doc_statement |-> <<"All PII should use", masker>>,
                         actual_code   |-> <<py_file.name,
                                             "handles PII but doesn't import", masker>>,
                         suggestion    |-> <<"Add: from",
                                             GetOr(pii_cfg, "import_from", "utils.pii"),
                                             "import", masker>>] >>
                ELSE <<>>
       ELSE <<>>

validate_pii_usage(pii_cfg, files) ==
  Flatten([i \in 1..Len(GlobPy(files)) |-> validate_pii_file(pii_cfg, GlobPy(files)[i])])

\* One pass of the loop body of _validate_magika_usage for one views.py.
validate_magika_file(magika_cfg, py_file) ==
  IF \E sig \in UploadSignals : InContent(py_file.lines, sig)
  THEN LET validator == GetOr(magika_cfg, "validation_function", "validate_with_magika")
       IN  IF ~InContent(py_file.lines, validator)
           THEN << [doc_file      |-> "docs/validation/magika.md",
                    doc_statement |-> <<"All file uploads should use", validator>>,
                    actual_code   |-> <<py_file.name,
                                        "handles files but doesn't call", validator>>,
                    suggestion    |-> <<"Add validation:", validator, "(uploaded_file)">>] >>
           ELSE <<>>
  ELSE <<>>

validate_magika_usage(magika_cfg, files) ==
  LET views == Glob(files, "views.py")
  IN  Flatten([i \in 1..Len(views) |-> validate_magika_file(magika_cfg, views[i])])

\* One pass of the loop body of _validate_logging_usage for one file.
validate_logging_file(logging_cfg, py_file) ==
  IF InPath(py_file, "test") \/ InPath(py_file, "migration") THEN <<>>
  ELSE IF \E sig \in LoggingSignals : InContent(py_file.lines, sig)
       THEN LET logger == GetOr(logging_cfg, "logger_function", "get_logger")
            IN  IF ~InContent(py_file.lines, logger)
                THEN << [doc_file      |-> "docs/infrastructure/logging.md",
                         doc_statement |-> <<"Use centralized logging with", logger>>,
                         actual_code   |-> <<py_file.name,
                                             "uses print/basic logging instead of", logger>>,
                         suggestion    |-> <<"Replace with: logger =", logger, "(__name__)">>] >>
                ELSE <<>>
       ELSE <<>>

validate_logging_usage(logging_cfg, files) ==
  Flatten([i \in 1..Len(GlobPy(files)) |-> validate_logging_file(logging_cfg, GlobPy(files)[i])])

\* ------------------------------------------------ feature documentation
FeatureKeywords ==
  <<"user", "auth", "payment", "profile", "api", "admin", "report", "notification">>

\* _extract_feature_names: keywords and docs sub-directory names found in the
\* lowered description (a set: duplicates are removed).
extract_feature_names(issue, feature_dirs) ==
  { FeatureKeywords[i] : i \in { j \in 1..Len(FeatureKeywords) :
        DescContainsLower(issue.description, FeatureKeywords[j]) } }
  \cup { d \in DOMAIN feature_dirs : DescContainsLower(issue.description, d) }

\* _read_feature_documentation: the feature_docs attribute after the call;
\* the _validate_*_docs helpers it calls end in stubs that record nothing.
read_feature_documentation(old_docs, issue, feature_dirs) ==
  LET read == extract_feature_names(issue, feature_dirs) \cap DOMAIN feature_dirs
  IN  [f \in read |-> feature_dirs[f]] @@ old_docs

\* re.findall(the python code fences (written ~~~ here), content, re.DOTALL): the positions of
\* content that lie inside a closed python fence.
InFence(content, i) ==
  /\ \E j \in 1..(i - 1) :
        /\ content[j] = "~~~python"
        /\ \A k \in (j + 1)..i : content[k] # "~~~"
  /\ \E j \in (i + 1)..Len(content) : content[j] = "~~~"

\* re.findall(r'def\s+(\w+)', block) and re.findall(r'class\s+(\w+)', block)
DefName(frag) ==
  CASE frag = "def export_user" -> "export_user"
    [] OTHER -> None
ClassName(frag) ==
  CASE frag = "class Exporter" -> "Exporter"
    [] frag = "class User" -> "User"
    [] OTHER -> None

\* _verify_function_exists / _verify_class_exists: bodies are pass.
verify_function_exists(func, feature, doc_name) == <<>>
verify_class_exists(cls, feature, doc_name) == <<>>

\* The discrepancies _check_doc_code_consistency records for one document.
check_doc_code_consistency(feature, doc_name, content) ==
  LET inside == SelectSeq([i \in 1..Len(content) |->
                             IF InFence(content, i) THEN content[i] ELSE "~~~"],
                          LAMBDA frag : frag # "~~~")
      funcs  == SelectSeq(inside, LAMBDA frag : DefName(frag) # None)
      clss   == SelectSeq(inside, LAMBDA frag : ClassName(frag) # None)
  IN  Flatten([i \in 1..Len(funcs) |->
                 verify_function_exists(DefName(funcs[i]), feature, doc_name)])
      \o Flatten([i \in 1..Len(clss) |->
                    verify_class_exists(ClassName(clss[i]), feature, doc_name)])

\* A set as a sequence, in a fixed order (dict iteration order).
RECURSIVE SetToSeq(_)
SetToSeq(S) ==
  IF S = {} THEN <<>>
  ELSE LET x == CHOOSE y \in S : TRUE IN <<x>> \o SetToSeq(S \ {x})

check_feature_docs(feature_docs) ==
  LET features == SetToSeq(DOMAIN feature_docs)
  IN  Flatten([i \in 1..Len(features) |->
        LET names == SetToSeq(DOMAIN feature_docs[features[i]])
        IN  Flatten([j \in 1..Len(names) |->
              check_doc_code_consistency(features[i], names[j],
                                         feature_docs[features[i]][names[j]])])])

\* Variant: PII usage is checked whether or not a masking symbol is known.
validate_documentation_against_code_PiiAlways(pii_cfg, magika_cfg, logging_cfg, feature_docs, files) ==
  validate_pii_usage(pii_cfg, files)
  \o (IF Get(magika_cfg, "validation_function") # None
        THEN validate_magika_usage(magika_cfg, files) ELSE <<>>)
  \o (IF Get(logging_cfg, "logger_function") # None
        THEN validate_logging_usage(logging_cfg, files) ELSE <<>>)
  \o check_feature_docs(feature_docs)

\* The discrepancies _validate_documentation_against_code appends, in order.
\* A topic is checked only when its config holds the required symbol.
validate_documentation_against_code(pii_cfg, magika_cfg, logging_cfg, feature_docs, files) ==
  (IF Get(pii_cfg, "masking_function") # None
     THEN validate_pii_usage(pii_cfg, files) ELSE <<>>)
  \o (IF Get(magika_cfg, "validation_function") # None
        THEN validate_magika_usage(magika_cfg, files) ELSE <<>>)
  \o (IF Get(logging_cfg, "logger_function") # None
        THEN validate_logging_usage(logging_cfg, files) ELSE <<>>)
  \o check_feature_docs(feature_docs)

\* ------------------------------------------------------- issue scanner
\* An UnrelatedIssue; description is a text (a set of fragments, as a line).
Finding(type, py_file, line_num, description, severity) ==
  [type |-> type, file |-> <<py_file.dir, py_file.name>>, line |-> line_num,
   description |-> description, severity |-> severity]

\* Variant: the password rule is an elif of the SQL rule.
scan_line_PasswordElif(py_file, line_num, line) ==
  (IF Contains(line, "TODO") \/ Contains(line, "FIXME")
     THEN << Finding("TODO", py_file, line_num, line, "low") >> ELSE <<>>)
  \o (IF ContainsLower(line, "deprecated") \/ Contains(line, "@deprecated")
        THEN << Finding("DEPRECATED", py_file, line_num,
                        {"Using deprecated function/method"}, "medium") >> ELSE <<>>)
  \o (IF Contains(line, "eval(") \/ Contains(line, "exec(")
        THEN << Finding("SECURITY", py_file, line_num,
                        {"Potential security issue: eval/exec usage"}, "high") >> ELSE <<>>)
  \o (IF Contains(line, ".format(") /\ ContainsUpper(line, "SELECT")
        THEN << Finding("SECURITY", py_file, line_num,
                        {"Potential SQL injection: string formatting in query"},
                        "critical") >>
        ELSE IF ContainsLower(line, "password=") /\ Contains(line, "\"")
                /\ ~Contains(line, "getenv") /\ ~Contains(line, "environ")
             THEN << Finding("SECURITY", py_file, line_num,
                             {"Hardcoded password detected"}, "critical") >>
             ELSE <<>>)

\* Variant: SELECT is matched case-sensitively.
scan_line_CaseSensitiveSelect(py_file, line_num, line) ==
  (IF Contains(line, "TODO") \/ Contains(line, "FIXME")
     THEN << Finding("TODO", py_file, line_num, line, "low") >> ELSE <<>>)
  \o (IF ContainsLower(line, "deprecated") \/ Contains(line, "@deprecated")
        THEN << Finding("DEPRECATED", py_file, line_num,
                        {"Using deprecated function/method"}, "medium") >> ELSE <<>>)
  \o (IF Contains(line, "eval(") \/ Contains(line, "exec(")
        THEN << Finding("SECURITY", py_file, line_num,
                        {"Potential security issue: eval/exec usage"}, "high") >> ELSE <<>>)
  \o (IF Contains(line, ".format(") /\ Contains(line, "SELECT")
        THEN << Finding("SECURITY", py_file, line_num,
                        {"Potential SQL injection: string formatting in query"},
                        "critical") >> ELSE <<>>)
  \o (IF ContainsLower(line, "password=") /\ Contains(line, "\"")
        THEN (IF ~Contains(line, "getenv") /\ ~Contains(line, "environ")
                THEN << Finding("SECURITY", py_file, line_num,
                                {"Hardcoded password detected"}, "critical") >>
                ELSE <<>>)
        ELSE <<>>)

\* The findings one line yields, in the order the rules are applied.
scan_line(py_file, line_num, line) ==
  (IF Contains(line, "TODO") \/ Contains(line, "FIXME")
     THEN << Finding("TODO", py_file, line_num, line, "low") >> ELSE <<>>)
  \o (IF ContainsLower(line, "deprecated") \/ Contains(line, "@deprecated")
        THEN << Finding("DEPRECATED", py_file, line_num,
                        {"Using deprecated function/method"}, "medium") >> ELSE <<>>)
  \o (IF Contains(line, "eval(") \/ Contains(line, "exec(")
        THEN << Finding("SECURITY", py_file, line_num,
                        {"Potential security issue: eval/exec usage"}, "high") >> ELSE <<>>)
  \o (IF Contains(line, ".format(") /\ ContainsUpper(line, "SELECT")
        THEN << Finding("SECURITY", py_file, line_num,
                        {"Potential SQL injection: string formatting in query"},
                        "critical") >> ELSE <<>>)
  \o (IF ContainsLower(line, "password=") /\ Contains(line, "\"")
        THEN (IF ~Contains(line, "getenv") /\ ~Contains(line, "environ")
                THEN << Finding("SECURITY", py_file, line_num,
                                {"Hardcoded password detected"}, "critical") >>
                ELSE <<>>)
        ELSE <<>>)

\* Variant: line numbers counted from zero.
scan_file_ZeroBased(py_file) ==
  Flatten([i \in 1..Len(py_file.lines) |-> scan_line(py_file, i - 1, py_file.lines[i])])

\* line_num starts at 0 and is incremented before the rules run.
scan_file(py_file) ==
  Flatten([i \in 1..Len(py_file.lines) |-> scan_line(py_file, i, py_file.lines[i])])

get_affected_files(issue, files) ==
  (IF issue.models # <<>> THEN Glob(files, "models.py") ELSE <<>>)
  \o (IF issue.endpoints # <<>>
        THEN Glob(files, "views.py") \o Glob(files, "urls.py")
             \o Glob(files, "serializers.py")
        ELSE <<>>)

\* The findings _scan_for_unrelated_issues appends, in order.
scan_for_unrelated_issues(issue, files) ==
  LET affected == get_affected_files(issue, files)
  IN  Flatten([i \in 1..Len(affected) |-> scan_file(affected[i])])

\* ------------------------------------------------------ halt outcomes
Prefix(s, n) == SubSeq(s, 1, IF Len(s) < n THEN Len(s) ELSE n)

\* The three question entries written for the i-th previewed discrepancy.
DiscrepancyQuestions(i, discrepancy) ==
  << <<"Documentation says:", i, discrepancy.doc_statement>>,
     <<"But I found:", discrepancy.actual_code>>,
     <<"Should I:", discrepancy.suggestion>> >>

\* Variant: the remaining count is reported from five discrepancies on.
handle_documentation_discrepancies_MoreFromFive(discrepancies) ==
  LET shown == Prefix(discrepancies, 5)
  IN  [status        |-> "documentation_mismatch",
       discrepancies |-> discrepancies,
       questions     |->
         << <<"I found discrepancies between documentation and actual code:">> >>
         \o Flatten([i \in 1..Len(shown) |-> DiscrepancyQuestions(i, shown[i])])
         \o (IF Len(discrepancies) >= 5
               THEN << <<"...and more discrepancies:", Len(discrepancies) - 5>> >>
               ELSE <<>>)
         \o << <<"How should I handle these? Fix them, or follow existing code?">> >>,
       message       |-> "Documentation doesn't match code - need guidance"]

handle_documentation_discrepancies(discrepancies) ==
  LET shown == Prefix(discrepancies, 5)
  IN  [status        |-> "documentation_mismatch",
       discrepancies |-> discrepancies,
       questions     |->
         << <<"I found discrepancies between documentation and actual code:">> >>
         \o Flatten([i \in 1..Len(shown) |-> DiscrepancyQuestions(i, shown[i])])
         \o (IF Len(discrepancies) > 5
               THEN << <<"...and more discrepancies:", Len(discrepancies) - 5>> >>
               ELSE <<>>)
         \o << <<"How should I handle these? Fix them, or follow existing code?">> >>,
       message       |-> "Documentation doesn't match code - need guidance"]

\* Variant: the high bucket also takes the critical findings.
BySeverity_HighTakesCritical(issues, severity) ==
  SelectSeq(issues, LAMBDA i : \/ i.severity = severity
                               \/ severity = "high" /\ i.severity = "critical")

BySeverity(issues, severity) == SelectSeq(issues, LAMBDA i : i.severity = severity)

IssueLine(issue) == <<issue.file, issue.line, issue.description>>

TriageOptions ==
  << "1. Fix critical issues now, flag others in PR",
     "2. Create separate issues for all findings",
     "3. Flag all in PR comments for later",
     "4. Ignore for now (not recommended for critical issues)",
     "5. Let me handle each severity level differently" >>

handle_unrelated_issues(issues) ==
  LET critical == BySeverity(issues, "critical")
      high     == BySeverity(issues, "high")
      medium   == BySeverity(issues, "medium")
      low      == BySeverity(issues, "low")
      shownC   == Prefix(critical, 2)
      shownH   == Prefix(high, 2)
  IN  [status  |-> "unrelated_issues_found",
       issues  |-> [critical |-> critical, high |-> high,
                    medium |-> medium, low |-> low],
       options |-> TriageOptions,
       message |->
         << <<"I found unrelated issues while reviewing the code:">> >>
         \o (IF critical # <<>>
               THEN << <<"CRITICAL", Len(critical)>> >>
                    \o [i \in 1..Len(shownC) |-> IssueLine(shownC[i])]
               ELSE <<>>)
         \o (IF high # <<>>
               THEN << <<"HIGH", Len(high)>> >>
                    \o [i \in 1..Len(shownH) |-> IssueLine(shownH[i])]
               ELSE <<>>)
         \o (IF medium # <<>> THEN << <<"MEDIUM", Len(medium)>> >> ELSE <<>>)
         \o (IF low # <<>> THEN << <<"LOW", Len(low)>> >> ELSE <<>>)
         \o << <<"How should I handle these? (Choose 1-5)">> >>]

\* ------------------------------------------- clarification questions
\* Variant: the issue number is never asked for.
get_clarification_questions_NoNumberQuestion(issue, pii_cfg, magika_cfg, logging_cfg) ==
  (IF issue.has_pii
     THEN (IF Get(pii_cfg, "masking_function") # None
             THEN << <<"Should I use for PII as documented?",
                       pii_cfg["masking_function"]>> >>
             ELSE << <<"How should PII be handled? I didn't find PII masking docs.">> >>)
     ELSE <<>>)
  \o (IF DescContainsLower(issue.description, "upload")
        THEN (IF Get(magika_cfg, "validation_function") # None
                THEN << <<"Should file uploads use?",
                          magika_cfg["validation_function"]>> >>
                ELSE << <<"Should uploaded files be validated? I didn't find Magika docs.">> >>)
        ELSE <<>>)
  \o (IF Get(logging_cfg, "logger_function") = None
        THEN << <<"What logging system should I use? I didn't find centralized logging docs.">> >>
        ELSE <<>>)

\* Variant: the logging question is asked only when the logging config is
\* empty.
get_clarification_questions_LoggingIfEmpty(issue, pii_cfg, magika_cfg, logging_cfg) ==
  (IF issue.number = None
     THEN << <<"What's the issue number for branch naming?">> >> ELSE <<>>)
  \o (IF issue.has_pii
        THEN (IF Get(pii_cfg, "masking_function") # None
                THEN << <<"Should I use for PII as documented?",
                          pii_cfg["masking_function"]>> >>
                ELSE << <<"How should PII be handled? I didn't find PII masking docs.">> >>)
        ELSE <<>>)
  \o (IF DescContainsLower(issue.description, "upload")
        THEN (IF Get(magika_cfg, "validation_function") # None
                THEN << <<"Should file uploads use?",
                          magika_cfg["validation_function"]>> >>
                ELSE << <<"Should uploaded files be validated? I didn't find Magika docs.">> >>)
        ELSE <<>>)
  \o (IF DOMAIN logging_cfg = {}
        THEN << <<"What logging system should I use? I didn't find centralized logging docs.">> >>
        ELSE <<>>)

\* Variant: the PII question is asked only when masking is documented.
get_clarification_questions_PiiOnlyDocumented(issue, pii_cfg, magika_cfg, logging_cfg) ==
  (IF issue.number = None
     THEN << <<"What's the issue number for branch naming?">> >> ELSE <<>>)
  \o (IF issue.has_pii /\ Get(pii_cfg, "masking_function") # None
        THEN << <<"Should I use for PII as documented?",
                  pii_cfg["masking_function"]>> >>
        ELSE <<>>)
  \o (IF DescContainsLower(issue.description, "upload")
        THEN (IF Get(magika_cfg, "validation_function") # None
                THEN << <<"Should file uploads use?",
                          magika_cfg["validation_function"]>> >>
                ELSE << <<"Should uploaded files be validated? I didn't find Magika docs.">> >>)
        ELSE <<>>)
  \o (IF Get(logging_cfg, "logger_function") = None
        THEN << <<"What logging system should I use? I didn't find centralized logging docs.">> >>
        ELSE <<>>)

get_clarification_questions(issue, pii_cfg, magika_cfg, logging_cfg) ==
  (IF issue.number = None
     THEN << <<"What's the issue number for branch naming?">> >> ELSE <<>>)
  \o (IF issue.has_pii
        THEN (IF Get(pii_cfg, "masking_function") # None
                THEN << <<"Should I use for PII as documented?",
                          pii_cfg["masking_function"]>> >>
                ELSE << <<"How should PII be handled? I didn't find PII masking docs.">> >>)
        ELSE <<>>)
  \o (IF DescContainsLower(issue.description, "upload")
        THEN (IF Get(magika_cfg, "validation_function") # None
                THEN << <<"Should file uploads use?",
                          magika_cfg["validation_function"]>> >>
                ELSE << <<"Should uploaded files be validated? I didn't find Magika docs.">> >>)
        ELSE <<>>)
  \o (IF Get(logging_cfg, "logger_function") = None
        THEN << <<"What logging system should I use? I didn't find centralized logging docs.">> >>
        ELSE <<>>)

\* ------------------------------------------------- breaking changes
\* f'class {model}' in mf.read_text()
ClassText(model) ==
  CASE model = "User" -> "class User"
    [] OTHER -> None
DefinesClass(py_file, model) == InContent(py_file.lines, ClassText(model))

check_breaking_changes(issue, files) ==
  LET model_files == Glob(files, "models.py")
      notes(model) ==
        Flatten([i \in 1..Len(model_files) |->
                   IF DefinesClass(model_files[i], model)
                   THEN << <<"Model already exists in", model,
                             <<model_files[i].dir, model_files[i].name>> >> >>
                   ELSE <<>>])
  IN  Flatten([m \in 1..Len(issue.models) |-> notes(issue.models[m])])

\* ---------------------------------------------------------------- plan
\* The plan text as its sequence of sections.
\* Variant: the PII section is shown whenever a PII policy was read.
create_validated_plan_PiiWheneverDocumented(issue, pii_cfg, magika_cfg, logging_cfg, feature_dirs, issues) ==
  << <<"Implementation Plan (Validated Against Documentation)">>,
     <<"Issue Details", issue.number, IF issue.has_pii THEN "Yes" ELSE "No">>,
     <<"Documentation Validation Status", Cardinality(DOMAIN feature_dirs)>> >>
  \o (IF DOMAIN pii_cfg # {}
        THEN << <<"PII Handling (Per Documentation)",
                  GetOr(pii_cfg, "masking_function", "GlobalPIIMasker"),
                  GetOr(pii_cfg, "import_from", "utils.pii")>> >>
        ELSE <<>>)
  \o (IF DescContainsLower(issue.description, "upload") /\ DOMAIN magika_cfg # {}
        THEN << <<"File Validation (Per Documentation)",
                  GetOr(magika_cfg, "validation_function", "validate_with_magika"),
                  GetOr(magika_cfg, "import_from", "utils.validation")>> >>
        ELSE <<>>)
  \o (IF DOMAIN logging_cfg # {}
        THEN << <<"Logging (Per Documentation)",
                  GetOr(logging_cfg, "logger_function", "get_logger"),
                  GetOr(logging_cfg, "import_from", "utils.logging")>> >>
        ELSE <<>>)
  \o (IF issues # <<>> /\ BySeverity(issues, "critical") # <<>>
        THEN << <<"Critical Issues Found (Will Flag in PR)",
                  Len(BySeverity(issues, "critical"))>> >>
        ELSE <<>>)
  \o << <<"Implementation Steps">>, <<"What I Will NOT Do">> >>

create_validated_plan(issue, pii_cfg, magika_cfg, logging_cfg, feature_dirs, issues) ==
  << <<"Implementation Plan (Validated Against Documentation)">>,
     <<"Issue Details", issue.number, IF issue.has_pii THEN "Yes" ELSE "No">>,
     <<"Documentation Validation Status", Cardinality(DOMAIN feature_dirs)>> >>
  \o (IF issue.has_pii /\ DOMAIN pii_cfg # {}
        THEN << <<"PII Handling (Per Documentation)",
                  GetOr(pii_cfg, "masking_function", "GlobalPIIMasker"),
                  GetOr(pii_cfg, "import_from", "utils.pii")>> >>
        ELSE <<>>)
  \o (IF DescContainsLower(issue.description, "upload") /\ DOMAIN magika_cfg # {}
        THEN << <<"File Validation (Per Documentation)",
                  GetOr(magika_cfg, "validation_function", "validate_with_magika"),
                  GetOr(magika_cfg, "import_from", "utils.validation")>> >>
        ELSE <<>>)
  \o (IF DOMAIN logging_cfg # {}
        THEN << <<"Logging (Per Documentation)",
                  GetOr(logging_cfg, "logger_function", "get_logger"),
                  GetOr(logging_cfg, "import_from", "utils.logging")>> >>
        ELSE <<>>)
  \o (IF issues # <<>> /\ BySeverity(issues, "critical") # <<>>
        THEN << <<"Critical Issues Found (Will Flag in PR)",
                  Len(BySeverity(issues, "critical"))>> >>
        ELSE <<>>)
  \o << <<"Implementation Steps">>, <<"What I Will NOT Do">> >>

\* ------------------------------------------------------ state machine
VARIABLES
  project,            \* the documentation and source tree on disk
  pii_config,         \* self.pii_config
  magika_config,      \* self.magika_config
  logging_config,     \* self.logging_config
  feature_docs,       \* self.feature_docs
  issue_data,         \* self.issue_data
  unrelated_issues,   \* self.unrelated_issues
  doc_discrepancies,  \* self.doc_discrepancies
  questions,          \* local of work_on_issue
  breaking_changes,   \* local of work_on_issue
  pc,                 \* position in work_on_issue
  outcome,            \* the dict work_on_issue returned
  calls,              \* work_on_issue calls made on the current object
  disc_mark,          \* len(self.doc_discrepancies) when the call began
  issue_mark,         \* len(self.unrelated_issues) when the call began
  repeat_of           \* outcome of the previous module-level call, when the
                      \* current one repeats its description

vars == << project, pii_config, magika_config, logging_config, feature_docs,
           issue_data, unrelated_issues, doc_discrepancies, questions,
           breaking_changes, pc, outcome, calls, disc_mark, issue_mark,
           repeat_of >>

NoOutcome == [status |-> "none"]

Init ==
  /\ project \in Projects
  /\ pii_config = EmptyDict
  /\ magika_config = EmptyDict
  /\ logging_config = EmptyDict
  /\ feature_docs = EmptyDict
  /\ issue_data = EmptyDict
  /\ unrelated_issues = <<>>
  /\ doc_discrepancies = <<>>
  /\ questions = <<>>
  /\ breaking_changes = <<>>
  /\ pc = "idle"
  /\ outcome = NoOutcome
  /\ calls = 0
  /\ disc_mark = 0
  /\ issue_mark = 0
  /\ repeat_of = NoOutcome

\* Steps 1-3 of work_on_issue on an object whose attributes hold the given
\* values: read the documentation, parse the issue, read the feature docs.
BeginRun(description, old_pii, old_magika, old_logging, old_feature_docs) ==
  /\ pii_config' = ReadDoc(project.pii_doc, parse_pii_docs(project.pii_doc), old_pii)
  /\ magika_config' = ReadDoc(project.magika_doc, parse_magika_docs(project.magika_doc),
                              old_magika)
  /\ logging_config' = ReadDoc(project.logging_doc, parse_logging_docs(project.logging_doc),
                               old_logging)
  /\ issue_data' = parse_issue(description)
  /\ feature_docs' = read_feature_documentation(old_feature_docs,
                                                parse_issue(description),
                                                project.feature_dirs)
  /\ questions' = <<>>
  /\ breaking_changes' = <<>>
  /\ outcome' = NoOutcome
  /\ pc' = "validate"
  /\ UNCHANGED project

\* Variant: the module keeps one automation object and calls it again.
ModuleWorkOnIssue_SharedObject(description) ==
  /\ pc \in {"idle", "done"}
  /\ BeginRun(description, pii_config, magika_config, logging_config, feature_docs)
  /\ disc_mark' = Len(doc_discrepancies)
  /\ issue_mark' = Len(unrelated_issues)
  /\ calls' = 1
  /\ repeat_of' = IF pc = "done" /\ calls = 1 /\ issue_data.description = description
                  THEN outcome ELSE NoOutcome
  /\ UNCHANGED << unrelated_issues, doc_discrepancies >>

\* The module-level work_on_issue(description): a new DjangoIssueAutomation
\* (__init__), then its work_on_issue method.
ModuleWorkOnIssue(description) ==
  /\ pc \in {"idle", "done"}
  /\ BeginRun(description, EmptyDict, EmptyDict, EmptyDict, EmptyDict)
  /\ unrelated_issues' = <<>>
  /\ doc_discrepancies' = <<>>
  /\ disc_mark' = 0
  /\ issue_mark' = 0
  /\ calls' = 1
  /\ repeat_of' = IF pc = "done" /\ calls = 1 /\ issue_data.description = description
                  THEN outcome ELSE NoOutcome

\* DjangoIssueAutomation.work_on_issue called again on the same object.
MethodWorkOnIssue(description) ==
  /\ pc = "done"
  /\ calls < MaxCalls
  /\ BeginRun(description, pii_config, magika_config, logging_config, feature_docs)
  /\ disc_mark' = Len(doc_discrepancies)
  /\ issue_mark' = Len(unrelated_issues)
  /\ calls' = calls + 1
  /\ repeat_of' = NoOutcome
  /\ UNCHANGED << unrelated_issues, doc_discrepancies >>

\* Variant: the discrepancies are recorded but the run goes on to the scan.
ValidateDocumentation_NoHalt ==
  /\ pc = "validate"
  /\ doc_discrepancies' = doc_discrepancies \o
        validate_documentation_against_code(
          pii_config, magika_config, logging_config, feature_docs, project.files)
  /\ pc' = "scan"
  /\ UNCHANGED << project, pii_config, magika_config, logging_config,
                  feature_docs, issue_data, unrelated_issues, questions,
                  breaking_changes, outcome, calls, disc_mark, issue_mark,
                  repeat_of >>

\* Steps 4-5: validate the documentation against the code; halt on
\* discrepancies.
ValidateDocumentation ==
  /\ pc = "validate"
  /\ LET found == doc_discrepancies \o
                  validate_documentation_against_code(
                    pii_config, magika_config, logging_config, feature_docs,
                    project.files)
     IN  /\ doc_discrepancies' = found
         /\ IF found # <<>>
            THEN /\ outcome' = handle_documentation_discrepancies(found)
                 /\ pc' = "done"
            ELSE /\ outcome' = outcome
                 /\ pc' = "scan"
  /\ UNCHANGED << project, pii_config, magika_config, logging_config,
                  feature_docs, issue_data, unrelated_issues, questions,
                  breaking_changes, calls, disc_mark, issue_mark, repeat_of >>

\* Steps 6-7: scan the affected files; halt on findings.
ScanForUnrelatedIssues ==
  /\ pc = "scan"
  /\ LET found == unrelated_issues \o
                  scan_for_unrelated_issues(issue_data, project.files)
     IN  /\ unrelated_issues' = found
         /\ IF found # <<>>
            THEN /\ outcome' = handle_unrelated_issues(found)
                 /\ pc' = "done"
            ELSE /\ outcome' = outcome
                 /\ pc' = "clarify"
  /\ UNCHANGED << project, pii_config, magika_config, logging_config,
                  feature_docs, issue_data, doc_discrepancies, questions,
                  breaking_changes, calls, disc_mark, issue_mark, repeat_of >>

\* Step 8: clarification questions; halt when there is one.
GetClarificationQuestions ==
  /\ pc = "clarify"
  /\ LET qs == get_clarification_questions(issue_data, pii_config,
                                           magika_config, logging_config)
     IN  /\ questions' = qs
         /\ IF qs # <<>>
            THEN /\ outcome' = [status    |-> "need_clarification",
                                questions |-> qs,
                                message   |-> "I need clarification on these points:"]
                 /\ pc' = "done"
            ELSE /\ outcome' = outcome
                 /\ pc' = "breaking"
  /\ UNCHANGED << project, pii_config, magika_config, logging_config,
                  feature_docs, issue_data, unrelated_issues, doc_discrepancies,
                  breaking_changes, calls, disc_mark, issue_mark, repeat_of >>

\* Step 9: breaking changes; halt when there is one.
CheckBreakingChanges ==
  /\ pc = "breaking"
  /\ LET changes == check_breaking_changes(issue_data, project.files)
     IN  /\ breaking_changes' = changes
         /\ IF changes # <<>>
            THEN /\ outcome' = [status  |-> "breaking_changes_warning",
                                changes |-> changes,
                                message |-> "These changes might break existing code. Continue?"]
                 /\ pc' = "done"
            ELSE /\ outcome' = outcome
                 /\ pc' = "plan"
  /\ UNCHANGED << project, pii_config, magika_config, logging_config,
                  feature_docs, issue_data, unrelated_issues, doc_discrepancies,
                  questions, calls, disc_mark, issue_mark, repeat_of >>

\* Step 10: the validated plan.
CreateValidatedPlan ==
  /\ pc = "plan"
  /\ outcome' = [status  |-> "approval_needed",
                 plan    |-> create_validated_plan(issue_data, pii_config,
                               magika_config, logging_config, feature_docs,
                               unrelated_issues),
                 message |-> "Implementation plan (validated against your docs). Proceed? (yes/no)"]
  /\ pc' = "done"
  /\ UNCHANGED << project, pii_config, magika_config, logging_config,
                  feature_docs, issue_data, unrelated_issues, doc_discrepancies,
                  questions, breaking_changes, calls, disc_mark, issue_mark,
                  repeat_of >>

Next ==
  \/ \E description \in Issues : ModuleWorkOnIssue(description)
  \/ \E description \in Issues : MethodWorkOnIssue(description)
  \/ ValidateDocumentation
  \/ ScanForUnrelatedIssues
  \/ GetClarificationQuestions
  \/ CheckBreakingChanges
  \/ CreateValidatedPlan

Spec == Init /\ [][Next]_vars

\* ------------------------------------------------------------- claims
\* Stage 2 (consistency check) has run in the current call.
Validated == pc \in {"scan", "clarify", "breaking", "plan", "done"}
\* Stage 3 (issue scan) has run in the current call.
Scanned ==
  \/ pc \in {"clarify", "breaking", "plan"}
  \/ pc = "done" /\ outcome.status # "documentation_mismatch"
\* Stage 4 (clarification) has run in the current call.
Clarified ==
  \/ pc \in {"breaking", "plan"}
  \/ pc = "done" /\ outcome.status \notin {"documentation_mismatch",
                                           "unrelated_issues_found"}
\* What the current call appended to the two lists.
RunDiscrepancies == SubSeq(doc_discrepancies, disc_mark + 1, Len(doc_discrepancies))
RunIssues == SubSeq(unrelated_issues, issue_mark + 1, Len(unrelated_issues))

\* The status of the first stage, in pipeline order, whose result is
\* non-empty; the plan when all are empty.
FirstNonEmptyStage(discrepancies, findings, qs, changes) ==
  IF discrepancies # <<>> THEN "documentation_mismatch"
  ELSE IF findings # <<>> THEN "unrelated_issues_found"
  ELSE IF qs # <<>> THEN "need_clarification"
  ELSE IF changes # <<>> THEN "breaking_changes_warning"
  ELSE "approval_needed"

\* C1: a run has an outcome exactly when it has completed, and then it is
\* the outcome of the first stage (discrepancies, findings, questions,
\* breaking changes, plan) whose result is non-empty; when the project yields
\* both discrepancies and findings the outcome is documentation_mismatch.
C1_FirstNonEmptyStageWins ==
  /\ (pc = "done") <=> (outcome.status # "none")
  /\ pc = "done" =>
       /\ outcome.status =
            FirstNonEmptyStage(doc_discrepancies, unrelated_issues,
                               questions, breaking_changes)
       /\ ( /\ validate_documentation_against_code(pii_config, magika_config,
                 logging_config, feature_docs, project.files) # <<>>
            /\ scan_for_unrelated_issues(issue_data, project.files) # <<>> )
          => outcome.status = "documentation_mismatch"
       /\ outcome.status = "unrelated_issues_found" => doc_discrepancies = <<>>
       /\ outcome.status = "need_clarification" =>
            doc_discrepancies = <<>> /\ unrelated_issues = <<>>
       /\ outcome.status \in {"breaking_changes_warning", "approval_needed"} =>
            doc_discrepancies = <<>> /\ unrelated_issues = <<>> /\ questions = <<>>

\* C1 witness: a completed run that halted on discrepancies although the
\* affected files also hold findings.
C1_Witness ==
  /\ pc = "done"
  /\ outcome.status = "documentation_mismatch"
  /\ scan_for_unrelated_issues(issue_data, project.files) # <<>>

\* C2: a module-level call that repeats the previous module-level call's
\* description on the unchanged project returns the identical outcome.
C2_RepeatedCallSameOutcome ==
  (pc = "done" /\ repeat_of.status # "none") => outcome = repeat_of

\* C2 witness: a repeated call completed, with discrepancies to report.
C2_Witness ==
  /\ pc = "done"
  /\ repeat_of.status = "documentation_mismatch"
  /\ outcome.status = "documentation_mismatch"

\* C3 (as claimed): the discrepancies and findings a call reports are
\* exactly those derived during that call from the project; nothing an
\* earlier call on the same object recorded appears in the outcome.
C3_NoStateAcrossCalls ==
  pc = "done" =>
    /\ outcome.status = "documentation_mismatch" =>
         outcome.discrepancies =
           validate_documentation_against_code(
             ReadDoc(project.pii_doc, parse_pii_docs(project.pii_doc), EmptyDict),
             ReadDoc(project.magika_doc, parse_magika_docs(project.magika_doc), EmptyDict),
             ReadDoc(project.logging_doc, parse_logging_docs(project.logging_doc), EmptyDict),
             read_feature_documentation(EmptyDict, issue_data, project.feature_dirs),
             project.files)
    /\ outcome.status = "unrelated_issues_found" =>
         unrelated_issues = scan_for_unrelated_issues(issue_data, project.files)

\* A line that holds the hardcoded-password pattern and no environment lookup.
IsPasswordLine(line) ==
  /\ \E frag \in line : frag \in {"password=", "PASSWORD="}
  /\ \E frag \in line : frag \in {"\"", "\"secret\""}
  /\ \A frag \in line : frag \notin {"getenv", "environ", "os.environ"}

\* The findings of the current call's scan for one line of one file.
FindingsAt(py_file, line_num) ==
  SelectSeq(RunIssues,
            LAMBDA i : i.file = <<py_file.dir, py_file.name>> /\ i.line = line_num)
SecurityCritical(findings) ==
  SelectSeq(findings, LAMBDA i : i.type = "SECURITY" /\ i.severity = "critical")
PasswordFindings(findings) ==
  SelectSeq(SecurityCritical(findings),
            LAMBDA i : i.description = {"Hardcoded password detected"})

AffectedFiles == get_affected_files(issue_data, project.files)

\* C4 (as claimed): every hardcoded-password line without an environment
\* lookup of a scanned file has exactly one SECURITY/critical finding,
\* whatever else the line contains.
C4_ExactlyOneCriticalFinding ==
  Scanned =>
    \A k \in 1..Len(AffectedFiles) :
      \A n \in 1..Len(AffectedFiles[k].lines) :
        IsPasswordLine(AffectedFiles[k].lines[n]) =>
          Len(SecurityCritical(FindingsAt(AffectedFiles[k], n))) = 1

\* C4 (amended): such a line has exactly one 'Hardcoded password detected'
\* finding (SECURITY, critical); its SECURITY/critical findings number one,
\* or two when the line also holds '.format(' and SELECT (the SQL rule).
C4_OnePasswordFinding ==
  Scanned =>
    \A k \in 1..Len(AffectedFiles) :
      \A n \in 1..Len(AffectedFiles[k].lines) :
        LET line == AffectedFiles[k].lines[n]
            sql  == ".format(" \in line /\ line \cap {"SELECT", "Select", "select"} # {}
        IN  IsPasswordLine(line) =>
              /\ Len(PasswordFindings(FindingsAt(AffectedFiles[k], n))) = 1
              /\ Len(SecurityCritical(FindingsAt(AffectedFiles[k], n)))
                   = IF sql THEN 2 ELSE 1

\* C4 witness: a scanned password line that also builds a SELECT with
\* .format(, after the scan.
C4_Witness ==
  /\ Scanned
  /\ \E k \in 1..Len(AffectedFiles) :
       \E n \in 1..Len(AffectedFiles[k].lines) :
         /\ IsPasswordLine(AffectedFiles[k].lines[n])
         /\ ".format(" \in AffectedFiles[k].lines[n]
         /\ "SELECT" \in AffectedFiles[k].lines[n]

\* The three topics: document, the config read from it, its symbol key.
Topics == {"pii", "upload", "logging"}
TopicDocFile(topic) ==
  CASE topic = "pii"     -> "docs/security/pii_masking.md"
    [] topic = "upload"  -> "docs/validation/magika.md"
    [] topic = "logging" -> "docs/infrastructure/logging.md"
TopicDoc(topic) ==
  CASE topic = "pii"     -> project.pii_doc
    [] topic = "upload"  -> project.magika_doc
    [] topic = "logging" -> project.logging_doc
\* The required symbol the topic's document names; None when the document
\* is missing or names none.
TopicSymbol(topic) ==
  IF TopicDoc(topic) = None THEN None
  ELSE CASE topic = "pii"     -> Get(parse_pii_docs(project.pii_doc), "masking_function")
         [] topic = "upload"  -> Get(parse_magika_docs(project.magika_doc),
                                     "validation_function")
         [] topic = "logging" -> Get(parse_logging_docs(project.logging_doc),
                                     "logger_function")
\* The file's text shows the topic's usage signal.
ShowsSignal(topic, py_file) ==
  \E n \in 1..Len(py_file.lines) :
    py_file.lines[n] \cap
      (CASE topic = "pii"     -> {"email", "Email", "phone", "ssn", "personal"}
         [] topic = "upload"  -> {"FileField", "ImageField", "request.FILES"}
         [] topic = "logging" -> {"print(", "logging.info"}) # {}
\* The symbol occurs somewhere in the file's text.
HasSymbol(symbol, py_file) ==
  \E n \in 1..Len(py_file.lines) :
    \E frag \in py_file.lines[n] :
      frag = symbol \/ (symbol = "PIIMasker" /\ frag = "GlobalPIIMasker")
\* The discrepancies the current call recorded for a topic.
TopicDiscrepancies(topic) ==
  SelectSeq(RunDiscrepancies, LAMBDA d : d.doc_file = TopicDocFile(topic))
\* What the topic's per-file check yields for one file.
TopicFileCheck(topic, py_file) ==
  CASE topic = "pii"     -> validate_pii_file(pii_config, py_file)
    [] topic = "upload"  -> validate_magika_file(magika_config, py_file)
    [] topic = "logging" -> validate_logging_file(logging_config, py_file)

\* C5: once the consistency check has run, a file whose text holds a
\* documented topic's required symbol yields no discrepancy for that topic,
\* usage signals or not: the per-file check is empty for it, and the topic's
\* discrepancies are no more than the files lacking the symbol.
C5_SymbolPresentNoDiscrepancy ==
  Validated =>
    \A topic \in Topics :
      TopicSymbol(topic) # None =>
        /\ \A k \in 1..Len(project.files) :
             HasSymbol(TopicSymbol(topic), project.files[k]) =>
               TopicFileCheck(topic, project.files[k]) = <<>>
        /\ Len(TopicDiscrepancies(topic)) <=
             Cardinality({ k \in 1..Len(project.files) :
                             ~HasSymbol(TopicSymbol(topic), project.files[k]) })

\* C5 witness: after the check, each topic is documented and a checked file
\* shows all three usage signals together with the three symbols.
C5_Witness ==
  /\ Validated
  /\ \A topic \in Topics : TopicSymbol(topic) # None
  /\ \E k \in 1..Len(project.files) :
       /\ ~InPath(project.files[k], "test")
       /\ project.files[k].name = "views.py"
       /\ \A topic \in Topics :
            /\ ShowsSignal(topic, project.files[k])
            /\ HasSymbol(TopicSymbol(topic), project.files[k])

IsPiiQuestion(q) ==
  q[1] \in {"How should PII be handled? I didn't find PII masking docs.",
            "Should I use for PII as documented?"}
HasPiiQuestion(qs) == \E i \in 1..Len(qs) : IsPiiQuestion(qs[i])

ExportRun ==
  /\ pc = "done"
  /\ issue_data.description = IssueExport
  /\ project.pii_doc = None

\* C6 (as claimed): on any project without PII-masking documentation the
\* export issue halts at stage 4 with need_clarification including a PII
\* question, with number '42' and has_pii true.
C6_ExportAlwaysHaltsAtClarification ==
  ExportRun =>
    /\ outcome.status = "need_clarification"
    /\ HasPiiQuestion(outcome.questions)
    /\ issue_data.number = "42"
    /\ issue_data.has_pii

\* C6 (amended): the export issue is parsed to number '42' and has_pii true;
\* the run halts with need_clarification including a PII question when
\* stages 2 and 3 leave the discrepancy and finding lists empty, and halts
\* with documentation_mismatch or unrelated_issues_found otherwise.
C6_ExportHaltsAtClarificationIfClean ==
  ExportRun =>
    /\ issue_data.number = "42"
    /\ issue_data.has_pii
    /\ (doc_discrepancies = <<>> /\ unrelated_issues = <<>>) =>
         /\ outcome.status = "need_clarification"
         /\ HasPiiQuestion(outcome.questions)
    /\ doc_discrepancies # <<>> => outcome.status = "documentation_mismatch"
    /\ (doc_discrepancies = <<>> /\ unrelated_issues # <<>>) =>
         outcome.status = "unrelated_issues_found"

\* C6 witness: the export issue reached stage 4 past a scanned views.py.
C6_Witness ==
  /\ ExportRun
  /\ outcome.status = "need_clarification"
  /\ Len(AffectedFiles) > 0

ProposedEntities(description) ==
  { "User" : i \in { j \in 1..Len(DescFragments(description)) :
                        DescFragments(description)[j] = "model User" } }
\* An entity of that name is defined in a models.py of the source tree.
EntityExists(name) ==
  \E k \in 1..Len(project.files) :
    /\ project.files[k].name = "models.py"
    /\ \E n \in 1..Len(project.files[k].lines) :
         (name = "User" /\ "class User" \in project.files[k].lines[n])
\* Stage 5 (breaking-change check) has run in the current call.
BreakingChecked ==
  \/ pc = "plan"
  \/ pc = "done" /\ outcome.status \in {"breaking_changes_warning", "approval_needed"}

\* C8 (as claimed): when the run reaches stage 5, every entity the issue
\* proposes that already exists in the source tree has a breaking-change
\* note, and with a note the run halts with breaking_changes_warning.
C8_ExistingEntityIsNoted ==
  BreakingChecked =>
    /\ \A name \in ProposedEntities(issue_data.description) :
         EntityExists(name) =>
           \E i \in 1..Len(breaking_changes) : breaking_changes[i][2] = name
    /\ (pc = "done" /\ breaking_changes # <<>>) =>
         outcome.status = "breaking_changes_warning"

\* A file the topic's check reads: every non-test file for PII, every
\* views.py for upload validation, every non-test, non-migration file for
\* logging.
TopicScans(topic, py_file) ==
  CASE topic = "pii"     -> py_file.dir # "tests"
    [] topic = "upload"  -> py_file.name = "views.py"
    [] topic = "logging" -> py_file.dir \notin {"tests", "migrations"}

\* Some file the topic's check reads shows the signal without the symbol.
Unmatched(topic) ==
  \E k \in 1..Len(project.files) :
    /\ TopicScans(topic, project.files[k])
    /\ ShowsSignal(topic, project.files[k])
    /\ ~HasSymbol(TopicSymbol(topic), project.files[k])

\* C9: once the consistency check has run, a topic without a known required
\* symbol has no discrepancy, whatever the tree holds; a documented topic
\* with an unmatched file has one, and the run has halted with
\* documentation_mismatch.
C9_AbsentVersusUnmatched ==
  Validated =>
    \A topic \in Topics :
      /\ TopicSymbol(topic) = None => TopicDiscrepancies(topic) = <<>>
      /\ (TopicSymbol(topic) # None /\ Unmatched(topic)) =>
           /\ TopicDiscrepancies(topic) # <<>>
           /\ pc = "done"
           /\ outcome.status = "documentation_mismatch"

\* C9 witness: the check has run over a file showing PII and logging
\* signals, with the PII document absent and logging documented.
C9_Witness ==
  /\ Validated
  /\ project.pii_doc = None
  /\ TopicSymbol("logging") # None
  /\ \E k \in 1..Len(project.files) :
       /\ TopicScans("pii", project.files[k])
       /\ ShowsSignal("pii", project.files[k])
       /\ ShowsSignal("logging", project.files[k])
       /\ ~HasSymbol(TopicSymbol("logging"), project.files[k])

TopicQuestion(topic) ==
  CASE topic = "pii" ->
         <<"How should PII be handled? I didn't find PII masking docs.">>
    [] topic = "upload" ->
         <<"Should uploaded files be validated? I didn't find Magika docs.">>
    [] topic = "logging" ->
         <<"What logging system should I use? I didn't find centralized logging docs.">>
\* The issue touches the topic: PII keywords, the word upload; logging always.
IssueTouches(topic) ==
  CASE topic = "pii" ->
         \E i \in 1..Len(DescFragments(issue_data.description)) :
           DescFragments(issue_data.description)[i] \in {"personal"}
    [] topic = "upload" ->
         \E i \in 1..Len(DescFragments(issue_data.description)) :
           DescFragments(issue_data.description)[i] \in {"upload", "Upload"}
    [] topic = "logging" -> TRUE
Asked(topic) ==
  /\ pc = "done"
  /\ outcome.status = "need_clarification"
  /\ \E i \in 1..Len(outcome.questions) : outcome.questions[i] = TopicQuestion(topic)

\* C10 (as claimed): for each topic whose document is missing or names no
\* symbol, a run that reaches the clarification stage returns a question
\* about that topic.
C10_UnknownTopicAlwaysAsked ==
  (pc = "done" /\ Clarified) =>
    \A topic \in Topics : TopicSymbol(topic) = None => Asked(topic)

\* The required symbol the object holds for a topic after reading the docs.
ConfigSymbol(topic) ==
  CASE topic = "pii"     -> Get(pii_config, "masking_function")
    [] topic = "upload"  -> Get(magika_config, "validation_function")
    [] topic = "logging" -> Get(logging_config, "logger_function")

\* C10 (amended): for each topic whose document is missing or names no
\* symbol the run goes on with that symbol unknown, and a run that reaches
\* the clarification stage returns the topic's question if the issue touches
\* the topic (PII keyword for PII masking, 'upload' for upload validation,
\* always for logging) and no question about it otherwise.
C10_UnknownTopicAskedWhenTouched ==
  /\ pc # "idle" =>
       \A topic \in Topics : TopicSymbol(topic) = None => ConfigSymbol(topic) = None
  /\ (pc = "done" /\ Clarified) =>
       \A topic \in Topics :
         TopicSymbol(topic) = None => (Asked(topic) <=> IssueTouches(topic))

\* C10 witness: a completed run past stage 3 where the logging document
\* exists but names no symbol and the PII document is missing, for an issue
\* touching PII.
C10_Witness ==
  /\ pc = "done"
  /\ Clarified
  /\ project.logging_doc # None
  /\ TopicSymbol("logging") = None
  /\ project.pii_doc = None
  /\ IssueTouches("pii")
  /\ Asked("pii")
  /\ Asked("logging")

\* The feature documents selected for the current issue: feature -> docs.
SelectedFeatures ==
  extract_feature_names(issue_data, project.feature_dirs) \cap DOMAIN project.feature_dirs
\* The function and class names defined inside a python fence of a document.
FencedNames(content) ==
  { DefName(content[i]) : i \in { j \in 1..Len(content) :
        InFence(content, j) /\ DefName(content[j]) # None } }
  \cup { ClassName(content[i]) : i \in { j \in 1..Len(content) :
        InFence(content, j) /\ ClassName(content[j]) # None } }
\* The name is defined somewhere in the source tree.
ImplementationHas(name) ==
  \E k \in 1..Len(project.files) :
    \E n \in 1..Len(project.files[k].lines) :
      \E frag \in project.files[k].lines[n] :
        DefName(frag) = name \/ ClassName(frag) = name
\* Some selected feature document fences a name the implementation lacks.
DocumentsMissingCode ==
  \E f \in SelectedFeatures :
    \E doc_name \in DOMAIN project.feature_dirs[f] :
      \E name \in FencedNames(project.feature_dirs[f][doc_name]) :
        ~ImplementationHas(name)

\* C11 (as claimed): once the consistency check has run over a selected
\* feature document that fences a function or class name absent from the
\* implementation, a discrepancy outside the three topic documents is
\* recorded and the run has halted with documentation_mismatch.
C11_FencedNameAbsentIsDiscrepancy ==
  (Validated /\ DocumentsMissingCode) =>
    /\ \E i \in 1..Len(RunDiscrepancies) :
         RunDiscrepancies[i].doc_file \notin { TopicDocFile(t) : t \in Topics }
    /\ pc = "done"
    /\ outcome.status = "documentation_mismatch"

\* The file lies under a test-designated path.
UnderTestPath(py_file) == py_file.dir = "tests"

\* C12 (as claimed): once the consistency check has run, the discrepancies
\* of each documented topic are no more than the checked files that lie
\* outside the test path, so a file under the test path produces none.
C12_TestPathNeverReported ==
  Validated =>
    \A topic \in Topics :
      TopicSymbol(topic) # None =>
        /\ \A k \in 1..Len(project.files) :
             UnderTestPath(project.files[k]) =>
               TopicFileCheck(topic, project.files[k]) = <<>>
        /\ Len(TopicDiscrepancies(topic)) <=
             Cardinality({ k \in 1..Len(project.files) :
                             ~UnderTestPath(project.files[k]) })

\* The issue text holds a resolvable issue number ('#<digits>' or
\* 'issue <digits>').
HasIssueNumber ==
  \E i \in 1..Len(DescFragments(issue_data.description)) :
    DescFragments(issue_data.description)[i] \in {"#42", "issue 7", "Issue 7"}
HaltedForClarification == pc = "done" /\ outcome.status = "need_clarification"
\* The run went on from stage 4 to the breaking-change check.
WentOnToBreaking ==
  \/ pc \in {"breaking", "plan"}
  \/ pc = "done" /\ outcome.status \in {"breaking_changes_warning", "approval_needed"}

\* C13 (as claimed): a run that has passed stage 4 halted with
\* need_clarification exactly when the issue touches PII with no masking
\* policy, or mentions upload with no validation policy, or there is no
\* logging policy, or the issue has no number; otherwise it produced no
\* question and went on to the breaking-change check.
C13_ClarificationOnlyForMissingPolicy ==
  Clarified =>
    LET needed ==
          \/ IssueTouches("pii") /\ TopicSymbol("pii") = None
          \/ IssueTouches("upload") /\ TopicSymbol("upload") = None
          \/ TopicSymbol("logging") = None
          \/ ~HasIssueNumber
    IN  /\ HaltedForClarification <=> needed
        /\ ~needed => (questions = <<>> /\ WentOnToBreaking)

\* C13 (amended): a run that has passed stage 4 halted with
\* need_clarification exactly when the issue touches PII (masking policy
\* found or not), or mentions upload (validation policy found or not), or
\* there is no logging policy, or the issue has no number; otherwise it
\* produced no question and went on to the breaking-change check.
C13_ClarificationDerivation ==
  Clarified =>
    LET needed ==
          \/ IssueTouches("pii")
          \/ IssueTouches("upload")
          \/ TopicSymbol("logging") = None
          \/ ~HasIssueNumber
    IN  /\ HaltedForClarification <=> needed
        /\ needed => outcome.questions = questions /\ questions # <<>>
        /\ ~needed => (questions = <<>> /\ WentOnToBreaking)

\* C13 witness: a numbered issue touching PII halted for clarification
\* although masking and logging are documented and no upload is mentioned.
C13_Witness ==
  /\ Clarified
  /\ HaltedForClarification
  /\ IssueTouches("pii")
  /\ TopicSymbol("pii") # None
  /\ TopicSymbol("logging") # None
  /\ ~IssueTouches("upload")
  /\ HasIssueNumber

Min(a, b) == IF a < b THEN a ELSE b

\* C14: a documentation_mismatch outcome for n >= 1 discrepancies carries
\* all n in list order, previews exactly the first min(n, 5) in order (three
\* entries each, numbered from 1), and reports a remaining count, n - 5, if
\* and only if n > 5.
C14_PreviewFirstFive ==
  (pc = "done" /\ outcome.status = "documentation_mismatch") =>
    LET n == Len(doc_discrepancies)
        q == outcome.questions
        more == { j \in 1..Len(q) : q[j][1] = "...and more discrepancies:" }
    IN  /\ n >= 1
        /\ outcome.discrepancies = doc_discrepancies
        /\ Len(q) = 2 + 3 * Min(n, 5) + (IF n > 5 THEN 1 ELSE 0)
        /\ \A i \in 1..Min(n, 5) :
             /\ q[3 * i - 1] = <<"Documentation says:", i,
                                 doc_discrepancies[i].doc_statement>>
             /\ q[3 * i] = <<"But I found:", doc_discrepancies[i].actual_code>>
             /\ q[3 * i + 1] = <<"Should I:", doc_discrepancies[i].suggestion>>
        /\ (more # {}) <=> (n > 5)
        /\ \A j \in more : j = 3 * Min(n, 5) + 2 /\ q[j][2] = n - 5

\* C14 witness: a documentation_mismatch outcome for more than five
\* discrepancies.
C14_Witness ==
  /\ pc = "done"
  /\ outcome.status = "documentation_mismatch"
  /\ Len(outcome.discrepancies) > 5

\* C14 second case: exactly five discrepancies, all previewed.
C14_WitnessFive ==
  /\ pc = "done"
  /\ outcome.status = "documentation_mismatch"
  /\ Len(outcome.discrepancies) = 5

Severities == <<"critical", "high", "medium", "low">>
SeverityLabel(severity) ==
  CASE severity = "critical" -> "CRITICAL"
    [] severity = "high"     -> "HIGH"
    [] severity = "medium"   -> "MEDIUM"
    [] severity = "low"      -> "LOW"
\* The findings of one severity, in scan order.
OfSeverity(severity) ==
  SelectSeq(unrelated_issues, LAMBDA i : i.severity = severity)
PreviewOf(findings) ==
  [i \in 1..Min(Len(findings), 2) |->
     <<findings[i].file, findings[i].line, findings[i].description>>]

\* C15: in an unrelated_issues_found outcome every finding lies in exactly
\* the bucket of its severity, in scan order, and the bucket sizes sum to the
\* number of findings; the message states the full count of each non-empty
\* bucket and previews the first two critical and the first two high
\* findings at most; the menu is the same five options.
C15_SeverityBuckets ==
  (pc = "done" /\ outcome.status = "unrelated_issues_found") =>
    LET b == outcome.issues
        m == outcome.message
    IN  /\ DOMAIN b = {"critical", "high", "medium", "low"}
        /\ \A i \in 1..Len(unrelated_issues) :
             unrelated_issues[i].severity \in DOMAIN b
        /\ \A sev \in DOMAIN b : b[sev] = OfSeverity(sev)
        /\ Len(b.critical) + Len(b.high) + Len(b.medium) + Len(b.low)
             = Len(unrelated_issues)
        /\ Len(unrelated_issues) >= 1
        /\ SelectSeq(m, LAMBDA e : Len(e) = 2)
             = Flatten([k \in 1..4 |->
                 IF OfSeverity(Severities[k]) # <<>>
                 THEN << <<SeverityLabel(Severities[k]),
                           Len(OfSeverity(Severities[k]))>> >>
                 ELSE <<>>])
        /\ SelectSeq(m, LAMBDA e : Len(e) = 3)
             = PreviewOf(OfSeverity("critical")) \o PreviewOf(OfSeverity("high"))
        /\ outcome.options =
             << "1. Fix critical issues now, flag others in PR",
                "2. Create separate issues for all findings",
                "3. Flag all in PR comments for later",
                "4. Ignore for now (not recommended for critical issues)",
                "5. Let me handle each severity level differently" >>

\* C15 witness: an outcome with more than two critical findings and all
\* four buckets filled.
C15_Witness ==
  /\ pc = "done"
  /\ outcome.status = "unrelated_issues_found"
  /\ Len(outcome.issues.critical) > 2
  /\ outcome.issues.high # <<>>
  /\ outcome.issues.medium # <<>>
  /\ outcome.issues.low # <<>>

\* The five scanner rules in the order the loop body tests them.
RuleMatches(rule, line) ==
  CASE rule = 1 -> Contains(line, "TODO") \/ Contains(line, "FIXME")
    [] rule = 2 -> ContainsLower(line, "deprecated") \/ Contains(line, "@deprecated")
    [] rule = 3 -> Contains(line, "eval(") \/ Contains(line, "exec(")
    [] rule = 4 -> Contains(line, ".format(") /\ ContainsUpper(line, "SELECT")
    [] rule = 5 -> /\ ContainsLower(line, "password=") /\ Contains(line, "\"")
                   /\ ~Contains(line, "getenv") /\ ~Contains(line, "environ")
\* The rule a finding comes from.
RuleOf(finding) ==
  CASE finding.type = "TODO" -> 1
    [] finding.type = "DEPRECATED" -> 2
    [] finding.description = {"Potential security issue: eval/exec usage"} -> 3
    [] finding.description = {"Potential SQL injection: string formatting in query"} -> 4
    [] finding.description = {"Hardcoded password detected"} -> 5
    [] OTHER -> 0
MatchingRules(line) == {rule \in 1..5 : RuleMatches(rule, line)}
\* File, 1-based line and rule of every expected finding: files in
\* affected-file order, lines in line order, rules in rule order.
ExpectedFindingKeys ==
  Flatten([k \in 1..Len(AffectedFiles) |->
    Flatten([n \in 1..Len(AffectedFiles[k].lines) |->
      Flatten([rule \in 1..5 |->
        IF RuleMatches(rule, AffectedFiles[k].lines[n])
        THEN << <<AffectedFiles[k].dir, AffectedFiles[k].name, n, rule>> >>
        ELSE <<>>])])])

\* C16: the findings a scan appends are ordered by affected-file order,
\* then line order, then rule order (TODO, DEPRECATED, eval/exec, SQL
\* formatting, hardcoded password); a line matching k rules contributes
\* exactly k findings, each with the line's 1-based number.
C16_FindingsInScanOrder ==
  Scanned =>
    /\ [j \in 1..Len(RunIssues) |->
          <<RunIssues[j].file[1], RunIssues[j].file[2], RunIssues[j].line,
            RuleOf(RunIssues[j])>>] = ExpectedFindingKeys
    /\ \A k \in 1..Len(AffectedFiles) :
         \A n \in 1..Len(AffectedFiles[k].lines) :
           /\ Len(FindingsAt(AffectedFiles[k], n))
                = Cardinality(MatchingRules(AffectedFiles[k].lines[n]))
           /\ \A j \in 1..Len(FindingsAt(AffectedFiles[k], n)) :
                FindingsAt(AffectedFiles[k], n)[j].line = n

\* C16 witness: a scan of two affected files, each with a finding beyond
\* its first line, and with a line that matches two rules.
C16_Witness ==
  /\ Scanned
  /\ Len(AffectedFiles) = 2
  /\ \A k \in 1..2 : \E n \in 2..Len(AffectedFiles[k].lines) :
       MatchingRules(AffectedFiles[k].lines[n]) # {}
  /\ \E k \in 1..2 : \E n \in 1..Len(AffectedFiles[k].lines) :
       Cardinality(MatchingRules(AffectedFiles[k].lines[n])) >= 2

Approved == pc = "done" /\ outcome.status = "approval_needed"
PlanHasSection(title) ==
  \E j \in 1..Len(outcome.plan) : outcome.plan[j][1] = title

\* C17: approval_needed is returned only when the issue has a number, does
\* not touch PII, does not mention 'upload', a logging function is
\* documented and the discrepancy and finding lists are empty; the plan then
\* has the 'Logging (Per Documentation)' section and none of the PII
\* Handling, File Validation and Critical Issues Found sections.
C17_ApprovalOnlyForPlainIssue ==
  Approved =>
    /\ HasIssueNumber
    /\ issue_data.number # None
    /\ ~issue_data.has_pii
    /\ \A i \in 1..Len(DescFragments(issue_data.description)) :
         ~Occurs("upload", Lower(DescFragments(issue_data.description)[i]))
    /\ Get(logging_config, "logger_function") # None
    /\ doc_discrepancies = <<>>
    /\ unrelated_issues = <<>>
    /\ PlanHasSection("Logging (Per Documentation)")
    /\ ~PlanHasSection("PII Handling (Per Documentation)")
    /\ ~PlanHasSection("File Validation (Per Documentation)")
    /\ ~PlanHasSection("Critical Issues Found (Will Flag in PR)")

\* C17 witness: an approved plan in a project that documents a PII policy
\* and an upload policy and whose files hold critical findings.
C17_Witness ==
  /\ Approved
  /\ DOMAIN pii_config # {}
  /\ DOMAIN magika_config # {}
  /\ \E k \in 1..Len(project.files) :
       BySeverity(scan_file(project.files[k]), "critical") # <<>>

\* The issue text holds a 'METHOD /path' endpoint.
HasEndpoint ==
  \E i \in 1..Len(DescFragments(issue_data.description)) :
    DescFragments(issue_data.description)[i]
      \in {"POST /users/{id}/export", "get /x"}
HaltedForFindings == pc = "done" /\ outcome.status = "unrelated_issues_found"

\* C18 (as claimed): unrelated_issues_found is returned only for an issue
\* with an endpoint; for an issue without one the affected-file set is empty
\* and stage 3 does not halt; no models.py file is in the affected-file set.
C18_FindingsOnlyForEndpointIssue ==
  /\ HaltedForFindings => HasEndpoint
  /\ (Scanned /\ ~HasEndpoint) =>
       /\ AffectedFiles = <<>>
       /\ ~HaltedForFindings
  /\ pc # "idle" =>
       \A k \in 1..Len(AffectedFiles) : AffectedFiles[k].name # "models.py"

====
